---- MODULE Spec2Model ----
(***************************************************************************)
(* scripts/seed_users.py: a seeder that inserts ten placeholder users      *)
(* into a DynamoDB table with a conditional put_item and, on a condition   *)
(* failure, a fallback query on the username index.                        *)
(*                                                                         *)
(* The script is single-threaded, so one invocation of create_user is one  *)
(* atomic action.  The store is the DynamoDB table the client talks to: a  *)
(* set of items keyed by with a (non-unique) index on username.   *)
(* The password hash is not read by any control flow and is left out of    *)
(* the item.  Timestamps are readings of a logical clock that advances     *)
(* with every reading.                                                     *)
(***************************************************************************)
EXTENDS Integers, Sequences, FiniteSets, TLC

\* range(1, 11): the ten indices of main()'s loop.
NumUsers == 10

\* Bounds of the model.
\* Runs of the script against the same table.
MaxRuns == 2
\* Abnormal events in one behaviour: describe_table or put_item raising a
\* non-condition error, and uuid4 repeating an identifier.  (The fallback
\* query is only issued after such an event; it may fail freely.)
MaxFaults == 1

VARIABLES
    table,          \* the remote table: a set of items
    pc,             \* position of main(): "start", "seeding", "done", "exit"
    i,              \* loop variable of main()
    exitStatus,     \* -1 while the process runs, then 0 or 1
    run,            \* number of the current run of the script
    clock,          \* datetime.now(): advances with every reading
    uuidMayRepeat,  \* whether uuid4 may return an identifier a second time
    minted,         \* every identifier uuid4 has returned, over all runs
    invocations,    \* number of create_user invocations, over all runs
    outcome,        \* status line printed for each index in this run
    calls,          \* store calls issued in this run, in order
    ids0,           \* the identifiers in the table when this run started
    faults          \* abnormal events so far

vars == <<table, pc, i, exitStatus, run, clock, uuidMayRepeat,
          minted, invocations, outcome, calls, ids0, faults>>

Indices == 1..NumUsers

----------------------------------------------------------------------------
\* Formatting: f"{num:02d}" and the derived attributes.

Digits == <<"0", "1", "2", "3", "4", "5", "6", "7", "8", "9">>

Pad2(num) == Digits[((num \div 10) % 10) + 1] \o Digits[(num % 10) + 1]

UsernameNoPad(num) ==
    IF num < 10 THEN "user" \o Digits[num + 1] ELSE "user" \o Pad2(num)

Username(num) == "user" \o Pad2(num)

Email(num) == Username(num) \o "@traffictacos.store"

DisplayName(num) == "Test User " \o Pad2(num)

\* The Item of put_item: created_at and updated_at both carry `now`.
Item(num, id, now) ==
    [user_id      |-> id,
     username     |-> Username(num),
     email        |-> Email(num),
     display_name |-> DisplayName(num),
     role         |-> "user",
     created_at   |-> now,
     updated_at   |-> now]

----------------------------------------------------------------------------
\* The store.

TableIds(tbl) == {r.user_id : r \in tbl}

HasKey(tbl, id) == \E r \in tbl : r.user_id = id

\* put_item without the ConditionExpression: replaces the item of that key.
put_item_unconditional(tbl, item, fail) ==
    IF fail
    THEN [error |-> "ClientError", table |-> tbl]
    ELSE [error |-> "none",
          table |-> {r \in tbl : r.user_id # item.user_id} \cup {item}]

\* put_item with a condition on the username instead of the key.
put_item_condition_on_username(tbl, item, fail) ==
    IF fail
    THEN [error |-> "ClientError", table |-> tbl]
    ELSE IF \E r \in tbl : r.username = item.username
         THEN [error |-> "ConditionalCheckFailedException", table |-> tbl]
         ELSE [error |-> "none",
               table |-> {r \in tbl : r.user_id # item.user_id} \cup {item}]

\* put_item with ConditionExpression = attribute_not_exists(user_id).
\* `fail` is a network, permission or throttling error of the call.
put_item(tbl, item, fail) ==
    IF fail
    THEN [error |-> "ClientError", table |-> tbl]
    ELSE IF HasKey(tbl, item.user_id)
         THEN [error |-> "ConditionalCheckFailedException", table |-> tbl]
         ELSE [error |-> "none",
               table |-> {r \in tbl : r.user_id # item.user_id} \cup {item}]

\* query on username-index with KeyConditionExpression username = :username.
query(tbl, username, fail) ==
    IF fail
    THEN [error |-> "ClientError", Count |-> 0]
    ELSE [error |-> "none",
          Count |-> Cardinality({r \in tbl : r.username = username})]

----------------------------------------------------------------------------
\* uuid.uuid4().

KnownIds == minted \cup TableIds(table)

Uuid4Cached(history, tbl) == 1

\* A fresh identifier: one that no earlier call returned and no item carries.
Uuid4Fresh(history, tbl) ==
    LET used == history \cup TableIds(tbl)
    IN  CHOOSE id \in 1..(Cardinality(used) + 1) : id \notin used

\* What uuid4 may return: a fresh identifier or, where repeats are admitted
\* and the budget of abnormal events allows one, an identifier seen before.
Uuid4Results ==
    {Uuid4Fresh(minted, table)} \cup
    (IF uuidMayRepeat /\ faults < MaxFaults THEN KnownIds ELSE {})

----------------------------------------------------------------------------
\* create_user(num).

PutCall(num, error) == [op |-> "put_item", num |-> num, error |-> error]

QueryCall(num, error) == [op |-> "query", num |-> num, error |-> error]

NeedsQueryOnAnyError(error) == error # "none"

\* except dynamodb.exceptions.ConditionalCheckFailedException: only this
\* error of put_item leads to the lookup by username.
NeedsQuery(error) == error = "ConditionalCheckFailedException"

VerifyOutcomeNonNegative(q) ==
    IF q.error # "none" THEN "verify_failed"
    ELSE IF q.Count >= 0 THEN "exists" ELSE "inconsistent"

\* The body of the inner try: the status line chosen from the query.
VerifyOutcome(q) ==
    IF q.error # "none" THEN "verify_failed"
    ELSE IF q.Count > 0 THEN "exists" ELSE "inconsistent"

PropagatesClientError(putError, queryError) ==
    putError = "ClientError" \/ queryError = "ClientError"

\* Whether an error of a store call leaves create_user as an exception:
\* both handlers end in `except Exception`, so none does.
Propagates(putError, queryError) == FALSE

\* One invocation: the put, the lookup when the condition failed, the
\* status line.  Returns the new table, the calls issued, the status line
\* and whether an exception left the function.
create_user(tbl, num, id, now, putFail, queryFail) ==
    LET put == put_item(tbl, Item(num, id, now), putFail)
        asked == NeedsQuery(put.error)
        q == IF asked
             THEN query(put.table, Username(num), queryFail)
             ELSE [error |-> "none", Count |-> 0]
    IN  [table   |-> put.table,
         calls   |-> <<PutCall(num, put.error)>> \o
                     (IF asked THEN <<QueryCall(num, q.error)>> ELSE <<>>),
         outcome |-> IF put.error = "none" THEN "created"
                     ELSE IF asked THEN VerifyOutcome(q)
                     ELSE "failed",
         raised  |-> Propagates(put.error, q.error)]

\* Whether a store call may still raise, with `spent` events used up.
FailChoices(spent) == IF spent < MaxFaults THEN BOOLEAN ELSE {FALSE}

\* A repeated identifier is one abnormal event.
RepeatCost(id) == IF id \in KnownIds THEN 1 ELSE 0

\* 1 if the put_item among the calls raised a non-condition error.
PutFaults(cs) == IF cs[1].error = "ClientError" THEN 1 ELSE 0

----------------------------------------------------------------------------
\* main().

NoOutcome == [n \in Indices |-> "none"]

DescribeCall(error) ==
    [op |-> "describe_table", num |-> 0, error |-> error]

InitWith(mayRepeat) ==
    /\ table = {}
    /\ pc = "start"
    /\ i = 1
    /\ exitStatus = -1
    /\ run = 1
    /\ clock = 0
    /\ uuidMayRepeat = mayRepeat
    /\ minted = {}
    /\ invocations = 0
    /\ outcome = NoOutcome
    /\ calls = <<>>
    /\ ids0 = {}
    /\ faults = 0

\* An empty table, and a uuid4 whose results never repeat.
Init == InitWith(FALSE)

\* The same, with a uuid4 that may repeat an identifier.
InitCollide == InitWith(TRUE)

\* describe_table succeeds: the loop starts.
DescribeTableOk ==
    /\ pc = "start"
    /\ pc' = "seeding"
    /\ i' = 1
    /\ calls' = Append(calls, DescribeCall("none"))
    /\ UNCHANGED <<table, exitStatus, run, clock, uuidMayRepeat,
                   minted, invocations, outcome, ids0, faults>>

DescribeTableFailsNoExit ==
    /\ pc = "start"
    /\ faults < MaxFaults
    /\ faults' = faults + 1
    /\ pc' = "seeding"
    /\ i' = 1
    /\ calls' = Append(calls, DescribeCall("ClientError"))
    /\ UNCHANGED <<table, exitStatus, run, clock, uuidMayRepeat,
                   minted, invocations, outcome, ids0>>

\* describe_table raises: sys.exit(1).
DescribeTableFails ==
    /\ pc = "start"
    /\ faults < MaxFaults
    /\ faults' = faults + 1
    /\ pc' = "exit"
    /\ exitStatus' = 1
    /\ calls' = Append(calls, DescribeCall("ClientError"))
    /\ UNCHANGED <<table, i, run, clock, uuidMayRepeat, minted,
                   invocations, outcome, ids0>>

\* One iteration of the loop: create_user(i).
CreateUser ==
    /\ pc = "seeding"
    /\ i <= NumUsers
    /\ \E id \in Uuid4Results :
       \E putFail \in FailChoices(faults + RepeatCost(id)) :
       \E queryFail \in BOOLEAN :
         LET res == create_user(table, i, id, clock, putFail, queryFail)
             events == PutFaults(res.calls) + RepeatCost(id)
         IN  /\ putFail => res.calls[1].error = "ClientError"
             /\ queryFail => /\ Len(res.calls) = 2
                             /\ res.calls[2].error = "ClientError"
             /\ faults' = faults + events
             /\ minted' = minted \cup {id}
             /\ invocations' = invocations + 1
             /\ clock' = clock + 1
             /\ table' = res.table
             /\ calls' = calls \o res.calls
             /\ outcome' = [outcome EXCEPT ![i] = res.outcome]
             /\ IF res.raised
                THEN /\ pc' = "exit"
                     /\ exitStatus' = 1
                     /\ i' = i
                ELSE /\ pc' = pc
                     /\ exitStatus' = exitStatus
                     /\ i' = i + 1
    /\ UNCHANGED <<run, uuidMayRepeat, ids0>>

\* The loop is over: the summary is printed and main() returns.
Finish ==
    /\ pc = "seeding"
    /\ i > NumUsers
    /\ pc' = "done"
    /\ exitStatus' = 0
    /\ UNCHANGED <<table, i, run, clock, uuidMayRepeat, minted,
                   invocations, outcome, calls, ids0, faults>>

\* The script is started again against the same table.
Rerun ==
    /\ pc \in {"done", "exit"}
    /\ run < MaxRuns
    /\ run' = run + 1
    /\ pc' = "start"
    /\ i' = 1
    /\ exitStatus' = -1
    /\ outcome' = NoOutcome
    /\ calls' = <<>>
    /\ ids0' = TableIds(table)
    /\ UNCHANGED <<table, clock, uuidMayRepeat, minted,
                   invocations, faults>>

Next ==
    \/ DescribeTableOk
    \/ DescribeTableFails
    \/ CreateUser
    \/ Finish
    \/ Rerun

Spec == Init /\ [][Next]_vars

SpecCollide == InitCollide /\ [][Next]_vars

TypeOK ==
    /\ pc \in {"start", "seeding", "done", "exit"}
    /\ i \in 1..(NumUsers + 1)
    /\ exitStatus \in {-1, 0, 1}
    /\ run \in 1..MaxRuns
    /\ faults \in 0..MaxFaults
    /\ uuidMayRepeat \in BOOLEAN

----------------------------------------------------------------------------
\* Properties.

\* The usernames the documentation names, written out.
UserNameList ==
    <<"user01", "user02", "user03", "user04", "user05",
      "user06", "user07", "user08", "user09", "user10">>

UserNames == {UserNameList[n] : n \in DOMAIN UserNameList}

CondFailed == "ConditionalCheckFailedException"

NoStoreError == \A k \in DOMAIN calls : calls[k].error = "none"

NoClientError == \A k \in DOMAIN calls : calls[k].error # "ClientError"

CallsOf(op, n) == {k \in DOMAIN calls : calls[k].op = op /\ calls[k].num = n}

\* The table held a record for each of the ten usernames when the run began.
SeededAtStart ==
    \A name \in UserNames :
        \E r \in table : r.user_id \in ids0 /\ r.username = name

\* C1: a run of main() against a table that already holds all ten usernames
\* adds no record, and every index ends in the "already exists" outcome.
C1_RerunAddsNothing ==
    (pc = "done" /\ SeededAtStart /\ NoClientError) =>
        /\ TableIds(table) = ids0
        /\ \A n \in Indices : outcome[n] = "exists"

\* C2: no two records of the table share a username.
C2_UsernameUnique ==
    \A r1, r2 \in table : r1.username = r2.username => r1 = r2

\* C3: when describe_table fails the process exits with status 1 having
\* issued no put_item and no query, invoked create_user for no index and
\* left the table as it was.
C3_ConnectFailureExits ==
    (calls # <<>> /\ calls[1].error = "ClientError") =>
        /\ pc = "exit"
        /\ exitStatus = 1
        /\ calls = <<DescribeCall("ClientError")>>
        /\ \A n \in Indices : outcome[n] = "none"
        /\ TableIds(table) = ids0

C3_Witness ==
    /\ pc = "exit"
    /\ table # {}
    /\ exitStatus = 1
    /\ calls # <<>>
    /\ calls[1].op = "describe_table"
    /\ calls[1].error = "ClientError"

\* C4: from an empty table and with no store call failing, at Done the
\* table holds exactly ten records, one for each of user01..user10, each
\* with role "user" and created_at equal to updated_at.
C4_FreshTableSeeded ==
    (pc = "done" /\ ids0 = {} /\ NoStoreError) =>
        /\ Cardinality(table) = 10
        /\ {r.username : r \in table} = UserNames
        /\ \A r \in table : r.role = "user" /\ r.created_at = r.updated_at

C4_Witness ==
    /\ pc = "done"
    /\ ids0 = {}
    /\ NoStoreError
    /\ Len(calls) = NumUsers + 1
    /\ table # {}

Connected == calls # <<>> /\ calls[1].error = "none"

\* C5: once describe_table has succeeded, no failure at an index aborts the
\* run: the process never exits with status 1, every index below the loop
\* variable has been processed whatever the earlier indices ended in, right
\* after an index that did not end in "created" the loop can take its next
\* step, and at Done the status is 0 with every index processed.
C5_FailuresDoNotAbort ==
    Connected =>
        /\ pc \in {"seeding", "done"}
        /\ exitStatus # 1
        /\ \A n \in Indices : (n < i) <=> (outcome[n] # "none")
        /\ (pc = "seeding" /\ i > 1 /\ outcome[i - 1] # "created") =>
              ENABLED (CreateUser \/ Finish)
        /\ pc = "done" => (exitStatus = 0 /\ i = NumUsers + 1)

C5_Witness ==
    /\ pc = "done"
    /\ exitStatus = 0
    /\ \E n \in 1..(NumUsers - 1) :
         /\ outcome[n] = "failed"
         /\ \A m \in (n + 1)..NumUsers : outcome[m] = "created"

\* C6: every invocation of create_user, over all runs and whether or not
\* its insert succeeded, minted an identifier no other invocation minted,
\* and the table only holds minted identifiers.
C6_DistinctUserIds ==
    /\ Cardinality(minted) = invocations
    /\ TableIds(table) \subseteq minted

C6_Witness ==
    /\ run = 2
    /\ invocations > NumUsers
    /\ Cardinality(table) < invocations
    /\ \E n \in Indices : outcome[n] = "failed"

\* C7: no step removes or changes a record of the table, and a create_user
\* whose put_item failed leaves the table as it was.
C7_NoUpdateNoDelete ==
    [][/\ table \subseteq table'
       /\ (/\ Len(calls') > Len(calls)
           /\ calls'[Len(calls) + 1].op = "put_item"
           /\ calls'[Len(calls) + 1].error # "none") => table' = table]_vars

C7_Witness ==
    /\ table # {}
    /\ \E k \in DOMAIN calls :
         calls[k].op = "put_item" /\ calls[k].error = CondFailed

\* C8: a create_user whose put_item failed its condition check issues
\* exactly one query, for its own username, writes nothing, and prints
\* "exists" when the table holds that username, "inconsistent" when it does
\* not, and a verification failure when the query raised.
C8_ConditionFailureLookup ==
    [][(/\ Len(calls') > Len(calls)
        /\ calls'[Len(calls) + 1].op = "put_item"
        /\ calls'[Len(calls) + 1].error = CondFailed) =>
          /\ Len(calls') = Len(calls) + 2
          /\ calls'[Len(calls) + 2].op = "query"
          /\ calls'[Len(calls) + 2].num = i
          /\ table' = table
          /\ outcome' = [outcome EXCEPT ![i] =
                IF calls'[Len(calls) + 2].error # "none" THEN "verify_failed"
                ELSE IF \E r \in table : r.username = UserNameList[i]
                     THEN "exists" ELSE "inconsistent"]]_vars

C8_Witness ==
    /\ \E n \in Indices : outcome[n] = "inconsistent"
    /\ \E k \in DOMAIN calls :
         calls[k].op = "put_item" /\ calls[k].error = CondFailed

\* C9: in a run that passed describe_table, each processed index has exactly
\* one put_item and at most one query, no other index has any call, and a
\* query directly follows the put_item of its index that failed its
\* condition check.
C9_NoRetries ==
    pc \in {"seeding", "done"} =>
        /\ \A n \in Indices :
             /\ Cardinality(CallsOf("put_item", n)) = (IF n < i THEN 1 ELSE 0)
             /\ Cardinality(CallsOf("query", n)) <= (IF n < i THEN 1 ELSE 0)
        /\ \A k \in DOMAIN calls :
             calls[k].op = "query" =>
                /\ k > 1
                /\ calls[k - 1].op = "put_item"
                /\ calls[k - 1].num = calls[k].num
                /\ calls[k - 1].error = CondFailed
        /\ pc = "done" => i = NumUsers + 1

C9_Witness ==
    /\ pc = "done"
    /\ \E k \in DOMAIN calls : calls[k].op = "query"
    /\ \E k \in DOMAIN calls : calls[k].error = "ClientError"

\* C10: with freshly minted identifiers the condition check of put_item
\* never fails: no query is issued and no index ends in "exists",
\* "inconsistent" or a verification failure, whatever the table holds.
C10_ConditionNeverFails ==
    /\ \A k \in DOMAIN calls :
         calls[k].op # "query" /\ calls[k].error # CondFailed
    /\ \A n \in Indices :
         outcome[n] \in {"none", "created", "failed"}

C10_Witness ==
    /\ run = 2
    /\ \E n \in Indices :
         /\ outcome[n] = "created"
         /\ \E r \in table :
              r.user_id \in ids0 /\ r.username = UserNameList[n]

====
